---------------------------- MODULE Spec2Model ----------------------------
(***************************************************************************)
(* Model of main.py: the POST /upload-report handler (upload_report) and   *)
(* its helpers extract_text_from_pdf, generate_summary, translate_summary. *)
(*                                                                         *)
(* A Python str is a sequence of tokens; " " and "\n" are whitespace       *)
(* tokens, every other token is a run of non-whitespace text.  str.strip() *)
(* is modelled by what it does (Strip).  Each request is a process that    *)
(* walks through the handler's statements; requests interleave at every    *)
(* statement, which covers the event-loop suspension at `await             *)
(* file.read()` as well as deployments with several worker processes that  *)
(* share the uploads directory.                                            *)
(***************************************************************************)
EXTENDS Naturals, Sequences, FiniteSets, TLC

\* Number of requests the model lets arrive.
NumRequests == 2

Requests == 1..NumRequests

\* Python's None, for a local not yet assigned, a page without extractable
\* text, or a completion whose message has no content.
None == <<"<None>">>

Whitespace == {" ", "\n"}

\* What the callers may send.
Filenames == {"report.pdf"}
Languages == {"en", "fr"}

\* File contents.  A file holds zero bytes, bytes that are no PDF, or a PDF
\* given by the text of its pages (None for a page without extractable text).
EmptyFile   == [pdf |-> FALSE, pages |-> <<>>, bytes |-> "empty"]
GarbageFile == [pdf |-> FALSE, pages |-> <<>>, bytes |-> "garbage"]
BlankPdf    == [pdf |-> TRUE, pages |-> << None, <<" ", "\n", " ">> >>, bytes |-> "blank"]
LabPdf      == [pdf |-> TRUE,
                pages |-> << <<" ", "Hemoglobin:", " ", "13.5">>, None, <<"Glucose:", " ", "90", " ">> >>,
                bytes |-> "lab"]
Uploads == {GarbageFile, BlankPdf, LabPdf}

\* What the environment may do to a call.
OpenErrors   == {"[Errno 2] No such file or directory"}
WriteErrors  == {"[Errno 28] No space left on device"}
RemoveErrors == {"[Errno 13] Permission denied"}
PdfSyntaxError == "No /Root object! - Is this really a PDF?"
FileNotFound   == "[Errno 2] No such file or directory"
AttributeError == "'NoneType' object has no attribute 'strip'"
ApiErrors == {"Connection error."}

\* Replies of client.chat.completions.create: an exception (error # ""), or a
\* response whose choices[0].message.content is a str or None.
SummaryReplies ==
    {[error |-> e, content |-> None] : e \in ApiErrors}
    \cup {[error |-> "", content |-> None]}
    \cup {[error |-> "", content |-> <<"\n", "Your", " ", "hemoglobin", " ", "is", " ", "normal.", " ">>]}
TranslationReplies ==
    {[error |-> e, content |-> None] : e \in ApiErrors}
    \cup {[error |-> "", content |-> None]}
    \cup {[error |-> "", content |-> <<" ", "Votre", " ", "hemoglobine", " ", "est", " ", "normale.", "\n">>]}

-----------------------------------------------------------------------------
(* str.strip() *)

RECURSIVE LStrip(_)
LStrip(s) ==
    IF s = <<>> THEN s
    ELSE IF Head(s) \in Whitespace THEN LStrip(Tail(s)) ELSE s

RECURSIVE RStrip(_)
RStrip(s) ==
    IF s = <<>> THEN s
    ELSE IF s[Len(s)] \in Whitespace THEN RStrip(SubSeq(s, 1, Len(s) - 1)) ELSE s

Strip(s) == RStrip(LStrip(s))

-----------------------------------------------------------------------------
(* extract_text_from_pdf *)

\* The loop over pdf.pages: text += (page.extract_text() or "") + "\n"
RECURSIVE PagesText(_)
PagesText(pages) ==
    IF pages = <<>> THEN <<>>
    ELSE (IF Head(pages) = None THEN <<>> ELSE Head(pages)) \o <<"\n">> \o PagesText(Tail(pages))

ExtractTextFromPdf(file) == Strip(PagesText(file.pages))

\* The outcome of extract_text_from_pdf(file_path) on filesystem f: the
\* exception it raises ("" when none) and the text it returns.
ExtractOutcome(f, path) ==
    IF path \notin DOMAIN f THEN [raised |-> FileNotFound, ret |-> None]
    ELSE IF ~f[path].pdf THEN [raised |-> PdfSyntaxError, ret |-> None]
    ELSE [raised |-> "", ret |-> ExtractTextFromPdf(f[path])]

-----------------------------------------------------------------------------
(* generate_summary, translate_summary *)

SummaryPrompt(text) ==
    <<"\nYou are a medical expert AI. Summarize this lab report for a patient in simple, clear language.\nInclude:\n1. Key test results (with values and reference ranges)\n2. Meaning or interpretation of each result\n3. Overall health summary and recommendations.\n\nLab Report:\n">>
    \o text \o <<"\n">>

TranslationPrompt(text, target_lang) ==
    <<"Translate the following medical lab report summary into ", target_lang,
      ". Make it sound natural and medically accurate:\n\n">> \o text

\* response.choices[0].message.content.strip() inside the try block: the
\* exception the block ends with ("" when none) and the stripped content.
CompletionText(reply) ==
    IF reply.error # "" THEN [raised |-> reply.error, ret |-> None]
    ELSE IF reply.content = None THEN [raised |-> AttributeError, ret |-> None]
    ELSE [raised |-> "", ret |-> Strip(reply.content)]

\* generate_summary that retries: it issues the call twice.
GenerateSummaryTwice(text, reply) ==
    LET c == CompletionText(reply)
        call == [role |-> "summarize", system |-> "You are a helpful medical assistant.",
                 prompt |-> SummaryPrompt(text), reply |-> reply] IN
    [ret    |-> IF c.raised # "" THEN <<"Summary generation failed: ", c.raised>> ELSE c.ret,
     raised |-> "",
     calls  |-> <<call, call>>]

\* generate_summary that lets the exception of the call escape.
GenerateSummaryNoCatch(text, reply) ==
    LET c == CompletionText(reply) IN
    [ret    |-> c.ret,
     raised |-> c.raised,
     calls  |-> << [role |-> "summarize", system |-> "You are a helpful medical assistant.",
                    prompt |-> SummaryPrompt(text), reply |-> reply] >>]

\* generate_summary(text) when the API answers `reply`: the value returned,
\* the exception raised to the caller ("": none) and the calls issued.
GenerateSummary(text, reply) ==
    LET c == CompletionText(reply) IN
    [ret    |-> IF c.raised # "" THEN <<"Summary generation failed: ", c.raised>> ELSE c.ret,
     raised |-> "",
     calls  |-> << [role |-> "summarize", system |-> "You are a helpful medical assistant.",
                    prompt |-> SummaryPrompt(text), reply |-> reply] >>]

\* translate_summary without the early return for "en".
TranslateSummaryAlways(text, target_lang, reply) ==
    LET c == CompletionText(reply) IN
    [ret    |-> IF c.raised # "" THEN <<"Translation failed: ", c.raised>> ELSE c.ret,
     raised |-> "",
     calls  |-> << [role |-> "translate", system |-> "You are a professional medical translator.",
                    prompt |-> TranslationPrompt(text, target_lang), reply |-> reply] >>]

\* translate_summary that returns the content without strip().
TranslateSummaryNoStrip(text, target_lang, reply) ==
    IF target_lang = "en" THEN [ret |-> text, raised |-> "", calls |-> <<>>]
    ELSE
    [ret    |-> IF reply.error # "" THEN <<"Translation failed: ", reply.error>>
                ELSE IF reply.content = None THEN <<"Translation failed: ", AttributeError>>
                ELSE reply.content,
     raised |-> "",
     calls  |-> << [role |-> "translate", system |-> "You are a professional medical translator.",
                    prompt |-> TranslationPrompt(text, target_lang), reply |-> reply] >>]

\* translate_summary(text, target_lang) when the API would answer `reply`.
TranslateSummary(text, target_lang, reply) ==
    IF target_lang = "en" THEN [ret |-> text, raised |-> "", calls |-> <<>>]
    ELSE
    LET c == CompletionText(reply) IN
    [ret    |-> IF c.raised # "" THEN <<"Translation failed: ", c.raised>> ELSE c.ret,
     raised |-> "",
     calls  |-> << [role |-> "translate", system |-> "You are a professional medical translator.",
                    prompt |-> TranslationPrompt(text, target_lang), reply |-> reply] >>]

-----------------------------------------------------------------------------
(* upload_report *)

\* file_path without the uuid4 prefix on the stored name.
FilePathNoUuid(uuid, filename) == [dir |-> "uploads", name |-> <<filename>>]

\* file_path with a fixed prefix in place of the uuid4.
FilePathShared(uuid, filename) == [dir |-> "uploads", name |-> <<"upload", "_", filename>>]

\* os.path.join(UPLOAD_FOLDER, f"{uuid.uuid4()}_{file.filename}")
FilePath(uuid, filename) == [dir |-> "uploads", name |-> <<uuid, "_", filename>>]

NoPath == [dir |-> "", name |-> <<>>]

NoResponse == [status |-> 0, summary |-> None]

\* The test `if not pdf_text.strip()` with the strip() left out and the
\* comparison made against None.
NoReadableTextNever(pdf_text) == pdf_text = None

\* if not pdf_text.strip():
NoReadableText(pdf_text) == Strip(pdf_text) = <<>>

EmptyResponse == [status |-> 200, summary |-> <<"No readable text found in the PDF file.">>]

\* An exception that leaves the handler: the framework answers 500.
ErrorEscapes(e) == [status |-> 500, summary |-> None]

\* The except branch without the details of the exception.
ErrorResponseNoDetails(e) == [status |-> 200, summary |-> <<"An error occurred: ">>]

\* except Exception as e: return {"summary": f"An error occurred: {str(e)}"}
ErrorResponse(e) == [status |-> 200, summary |-> <<"An error occurred: ", e>>]

\* return {"summary": final_summary}
SummaryResponse(final_summary) == [status |-> 200, summary |-> final_summary]

VARIABLES
    pc,          \* pc[r]: the statement request r is at
    upload,      \* upload[r]: the form fields, [filename, file, language]
    file_path,   \* the local file_path
    pdf_text,    \* the local pdf_text
    english_summary,
    final_summary,
    exc,         \* the exception in flight or caught, "" when none
    response,    \* the response sent
    calls,       \* calls[r]: the chat-completion calls r has issued, in order
    fs,          \* the uploads directory: path -> contents
    issued       \* how many uuid4 values have been drawn

vars == <<pc, upload, file_path, pdf_text, english_summary, final_summary,
          exc, response, calls, fs, issued>>

NoUpload == [filename |-> "", file |-> EmptyFile, language |-> ""]

Init ==
    /\ pc = [r \in Requests |-> "idle"]
    /\ upload = [r \in Requests |-> NoUpload]
    /\ file_path = [r \in Requests |-> NoPath]
    /\ pdf_text = [r \in Requests |-> None]
    /\ english_summary = [r \in Requests |-> None]
    /\ final_summary = [r \in Requests |-> None]
    /\ exc = [r \in Requests |-> ""]
    /\ response = [r \in Requests |-> NoResponse]
    /\ calls = [r \in Requests |-> <<>>]
    /\ fs = <<>>
    /\ issued = 0

\* The file system after writing `data` at `path` (created when absent).
WriteAt(f, path, data) == [p \in DOMAIN f \cup {path} |-> IF p = path THEN data ELSE f[p]]

\* The file system after os.remove(path).
RemoveAt(f, path) == [p \in DOMAIN f \ {path} |-> f[p]]

\* An exception raised inside the try block.
Raise(r, e) ==
    /\ pc' = [pc EXCEPT ![r] = "raised"]
    /\ exc' = [exc EXCEPT ![r] = e]

\* The request arrives; lines 102-103 name its scratch file.  uuid4() is
\* modelled as a value never drawn before.  Requests are numbered in the
\* order in which they arrive.
Receive(r) ==
    /\ pc[r] = "idle"
    /\ r = issued + 1
    /\ \E fn \in Filenames, f \in Uploads, lang \in Languages :
          /\ upload' = [upload EXCEPT ![r] = [filename |-> fn, file |-> f, language |-> lang]]
          /\ file_path' = [file_path EXCEPT ![r] = FilePath(issued + 1, fn)]
    /\ issued' = issued + 1
    /\ pc' = [pc EXCEPT ![r] = "open"]
    /\ UNCHANGED <<pdf_text, english_summary, final_summary, exc, response, calls, fs>>

\* with open(file_path, "wb") as f: creates or truncates the file.
OpenFile(r) ==
    /\ pc[r] = "open"
    /\ \/ /\ fs' = WriteAt(fs, file_path[r], EmptyFile)
          /\ pc' = [pc EXCEPT ![r] = "write"]
          /\ UNCHANGED exc
       \/ /\ \E e \in OpenErrors : Raise(r, e)
          /\ UNCHANGED fs
    /\ UNCHANGED <<upload, file_path, pdf_text, english_summary, final_summary,
                   response, calls, issued>>

\* f.write(await file.read()) and the close of the with block.
WriteFile(r) ==
    /\ pc[r] = "write"
    /\ \/ /\ fs' = WriteAt(fs, file_path[r], upload[r].file)
          /\ pc' = [pc EXCEPT ![r] = "extract"]
          /\ UNCHANGED exc
       \/ /\ \E e \in WriteErrors : Raise(r, e)
          /\ UNCHANGED fs
    /\ UNCHANGED <<upload, file_path, pdf_text, english_summary, final_summary,
                   response, calls, issued>>

\* pdf_text = extract_text_from_pdf(file_path)
Extract(r) ==
    /\ pc[r] = "extract"
    /\ LET o == ExtractOutcome(fs, file_path[r]) IN
          IF o.raised # ""
          THEN Raise(r, o.raised) /\ UNCHANGED pdf_text
          ELSE /\ pdf_text' = [pdf_text EXCEPT ![r] = o.ret]
               /\ pc' = [pc EXCEPT ![r] = "check"]
               /\ UNCHANGED exc
    /\ UNCHANGED <<upload, file_path, english_summary, final_summary,
                   response, calls, fs, issued>>

\* if not pdf_text.strip(): return {"summary": "No readable text ..."}
EmptyExit(r) ==
    /\ pc[r] = "check"
    /\ NoReadableText(pdf_text[r])
    /\ response' = [response EXCEPT ![r] = EmptyResponse]
    /\ pc' = [pc EXCEPT ![r] = "responded"]
    /\ UNCHANGED <<upload, file_path, pdf_text, english_summary, final_summary,
                   exc, calls, fs, issued>>

\* english_summary = generate_summary(pdf_text)
Summarize(r) ==
    /\ pc[r] = "check"
    /\ ~NoReadableText(pdf_text[r])
    /\ \E reply \in SummaryReplies :
          LET g == GenerateSummary(pdf_text[r], reply) IN
          /\ calls' = [calls EXCEPT ![r] = @ \o g.calls]
          /\ IF g.raised # ""
             THEN Raise(r, g.raised) /\ UNCHANGED english_summary
             ELSE /\ english_summary' = [english_summary EXCEPT ![r] = g.ret]
                  /\ pc' = [pc EXCEPT ![r] = "translate"]
                  /\ UNCHANGED exc
    /\ UNCHANGED <<upload, file_path, pdf_text, final_summary, response, fs, issued>>

\* final_summary = translate_summary(english_summary, language)
Translate(r) ==
    /\ pc[r] = "translate"
    /\ \E reply \in TranslationReplies :
          LET t == TranslateSummary(english_summary[r], upload[r].language, reply) IN
          /\ calls' = [calls EXCEPT ![r] = @ \o t.calls]
          /\ IF t.raised # ""
             THEN Raise(r, t.raised) /\ UNCHANGED final_summary
             ELSE /\ final_summary' = [final_summary EXCEPT ![r] = t.ret]
                  /\ pc' = [pc EXCEPT ![r] = "cleanup"]
                  /\ UNCHANGED exc
    /\ UNCHANGED <<upload, file_path, pdf_text, english_summary, response, fs, issued>>

\* os.remove(file_path)
Cleanup(r) ==
    /\ pc[r] = "cleanup"
    /\ \/ /\ file_path[r] \in DOMAIN fs
          /\ fs' = RemoveAt(fs, file_path[r])
          /\ pc' = [pc EXCEPT ![r] = "return"]
          /\ UNCHANGED exc
       \/ /\ file_path[r] \notin DOMAIN fs
          /\ Raise(r, FileNotFound)
          /\ UNCHANGED fs
       \/ /\ file_path[r] \in DOMAIN fs
          /\ \E e \in RemoveErrors : Raise(r, e)
          /\ UNCHANGED fs
    /\ UNCHANGED <<upload, file_path, pdf_text, english_summary, final_summary,
                   response, calls, issued>>

\* return {"summary": final_summary}
Respond(r) ==
    /\ pc[r] = "return"
    /\ response' = [response EXCEPT ![r] = SummaryResponse(final_summary[r])]
    /\ pc' = [pc EXCEPT ![r] = "responded"]
    /\ UNCHANGED <<upload, file_path, pdf_text, english_summary, final_summary,
                   exc, calls, fs, issued>>

\* except Exception as e: return {"summary": f"An error occurred: {str(e)}"}
HandlerCatch(r) ==
    /\ pc[r] = "raised"
    /\ response' = [response EXCEPT ![r] = ErrorResponse(exc[r])]
    /\ pc' = [pc EXCEPT ![r] = "responded"]
    /\ UNCHANGED <<upload, file_path, pdf_text, english_summary, final_summary,
                   exc, calls, fs, issued>>

Next ==
    \E r \in Requests :
        \/ Receive(r)
        \/ OpenFile(r)
        \/ WriteFile(r)
        \/ Extract(r)
        \/ EmptyExit(r)
        \/ Summarize(r)
        \/ Translate(r)
        \/ Cleanup(r)
        \/ Respond(r)
        \/ HandlerCatch(r)

Spec == Init /\ [][Next]_vars

-----------------------------------------------------------------------------
(* Vocabulary of the properties *)

\* s is a Python str (and not None).
IsStr(s) == s # None /\ \A i \in 1..Len(s) : s[i] \in STRING /\ s[i] # "<None>"

\* s is empty or holds whitespace only.
IsBlank(s) == \A i \in 1..Len(s) : s[i] \in Whitespace

\* No page of the PDF has text other than whitespace.
HasNoText(file) ==
    file.pdf /\ \A i \in 1..Len(file.pages) : file.pages[i] = None \/ IsBlank(file.pages[i])

\* The translation calls among the calls of r.
TranslateCalls(r) == {i \in 1..Len(calls[r]) : calls[r][i].role = "translate"}

\* The first call of r, the summarization call, has failed.
SummaryFailed(r) ==
    /\ calls[r] # <<>>
    /\ calls[r][1].reply.error # "" \/ calls[r][1].reply.content = None

\* The string generate_summary returns when the first call of r has failed.
SummaryFailure(r) ==
    <<"Summary generation failed: ",
      IF calls[r][1].reply.error # "" THEN calls[r][1].reply.error ELSE AttributeError>>

\* r has left translate_summary.
Translated(r) == english_summary[r] # None /\ pc[r] # "translate"

-----------------------------------------------------------------------------
(* C1: every response of POST /upload-report is an object with a summary   *)
(* that is a string, with status 200, on every path through the handler;   *)
(* no request is answered in another shape and no exception escapes.       *)
C1_ResponseAlwaysHasSummaryString ==
    \A r \in Requests :
        /\ pc[r] = "responded" =>
              /\ response[r].status = 200
              /\ IsStr(response[r].summary)
        /\ pc[r] # "responded" => response[r] = NoResponse

\* Two requests have responded, one through the except branch and one with
\* its final summary.
C1_Witness ==
    \E r, q \in Requests :
        /\ pc[r] = "responded" /\ exc[r] # ""
        /\ pc[q] = "responded" /\ exc[q] = "" /\ final_summary[q] # None
        /\ response[q].summary = final_summary[q]

(* C2: when the extracted text is empty or whitespace-only (the PDF has no *)
(* page with text), the response is exactly the fixed "No readable text"   *)
(* message and the request issues no inference call, whatever the language.*)
C2_EmptyTextExitsWithoutInference ==
    \A r \in Requests :
        (pdf_text[r] # None /\ (IsBlank(pdf_text[r]) \/ HasNoText(upload[r].file))) =>
            /\ calls[r] = <<>>
            /\ english_summary[r] = None /\ final_summary[r] = None
            /\ pc[r] \in {"check", "responded"}
            /\ pc[r] = "responded" =>
                  response[r] = [status |-> 200,
                                 summary |-> <<"No readable text found in the PDF file.">>]

\* Requests in both languages have taken the empty-text exit.
C2_Witness ==
    \E r, q \in Requests :
        /\ upload[r].language = "en" /\ upload[q].language = "fr"
        /\ \A x \in {r, q} :
              /\ pc[x] = "responded" /\ pdf_text[x] = <<>>
              /\ HasNoText(upload[x].file)

(* C3: translate_summary(s, "en") returns s unchanged without a call to    *)
(* the inference capability; a request with language "en" never makes a    *)
(* translation call.                                                       *)
C3_EnglishIsIdentityWithoutCall ==
    \A r \in Requests :
        upload[r].language = "en" =>
            /\ TranslateCalls(r) = {}
            /\ Translated(r) =>
                  /\ final_summary[r] = english_summary[r]
                  /\ Len(calls[r]) = 1

\* An "en" request has left translate_summary with a real summary, another
\* with a failure string.
C3_Witness ==
    \E r, q \in Requests :
        /\ upload[r].language = "en" /\ upload[q].language = "en"
        /\ Translated(r) /\ Translated(q)
        /\ SummaryFailed(r) /\ ~SummaryFailed(q)
        /\ final_summary[r] # None /\ final_summary[q] # None

(* C4: for a language other than "en", translate_summary issues exactly    *)
(* one call and returns either the call's trimmed output or, when the call *)
(* fails, "Translation failed: <details>"; it never raises.                *)
C4_TranslateOneCallTrimmedOrFailure ==
    \A r \in Requests :
        (pc[r] # "idle" /\ upload[r].language # "en" /\ Translated(r)) =>
            /\ Cardinality(TranslateCalls(r)) = 1
            /\ Len(calls[r]) = 2
            /\ calls[r][2].role = "translate"
            /\ calls[r][2].prompt =
                  <<"Translate the following medical lab report summary into ",
                    upload[r].language,
                    ". Make it sound natural and medically accurate:\n\n">>
                  \o english_summary[r]
            /\ final_summary[r] # None
            /\ LET reply == calls[r][2].reply IN
               IF reply.error # ""
               THEN final_summary[r] = <<"Translation failed: ", reply.error>>
               ELSE IF reply.content = None
               THEN /\ Len(final_summary[r]) = 2
                    /\ final_summary[r][1] = "Translation failed: "
               ELSE /\ final_summary[r] = Strip(reply.content)
                    /\ final_summary[r] # <<>>
                    /\ Head(final_summary[r]) \notin Whitespace
                    /\ final_summary[r][Len(final_summary[r])] \notin Whitespace
            /\ exc[r] \notin ApiErrors \cup {AttributeError}

\* A translation has returned trimmed output and another has failed.
C4_Witness ==
    \E r, q \in Requests :
        /\ upload[r].language = "fr" /\ upload[q].language = "fr"
        /\ Translated(r) /\ Translated(q)
        /\ calls[r][2].reply.error = "" /\ calls[r][2].reply.content # None
        /\ calls[q][2].reply.error # ""

(* C5: requests that upload files with the same original filename write to *)
(* pairwise distinct scratch paths, so no file in the uploads directory is *)
(* the scratch file of two requests.                                       *)
C5_ScratchPathsDistinct ==
    \A r, q \in Requests :
        (r # q /\ pc[r] # "idle" /\ pc[q] # "idle"
         /\ upload[r].filename = upload[q].filename) =>
            file_path[r] # file_path[q]

\* Two requests with the same filename are in flight, both files written.
C5_Witness ==
    \E r, q \in Requests :
        /\ r # q /\ upload[r].filename = upload[q].filename
        /\ pc[r] = "extract" /\ pc[q] = "extract"
        /\ Cardinality(DOMAIN fs) = 2

(* C6: an exception no component catches (writing the scratch file, a PDF  *)
(* that cannot be parsed, deleting the scratch file) is caught at the      *)
(* handler boundary and answered {"summary": "An error occurred:           *)
(* <details>"}; after it no further pipeline step runs for the request.    *)
C6_Caught ==
    \A r \in Requests :
        exc[r] # "" =>
            /\ pc[r] \in {"raised", "responded"}
            /\ pc[r] = "responded" =>
                  response[r] = [status |-> 200, summary |-> <<"An error occurred: ", exc[r]>>]

C6_NoStepAfter ==
    \A r \in Requests :
        exc[r] # "" =>
            /\ calls'[r] = calls[r]
            /\ pdf_text'[r] = pdf_text[r]
            /\ english_summary'[r] = english_summary[r]
            /\ final_summary'[r] = final_summary[r]
            /\ exc'[r] = exc[r]
            /\ (file_path[r] \in DOMAIN fs) => (file_path[r] \in DOMAIN fs' /\ fs'[file_path[r]] = fs[file_path[r]])

C6_UncaughtExceptionsBecomeErrorResponse == [](C6_Caught) /\ [][C6_NoStepAfter]_vars

\* One request was answered after its PDF could not be parsed, another after
\* its scratch file could not be deleted.
C6_Witness ==
    \E r, q \in Requests :
        /\ pc[r] = "responded" /\ exc[r] = PdfSyntaxError /\ calls[r] = <<>>
        /\ pc[q] = "responded" /\ exc[q] \in RemoveErrors
        /\ response[q].summary = <<"An error occurred: ", exc[q]>>

(* C7 as stated: a failed summarization call never aborts the request;     *)
(* generate_summary returns "Summary generation failed: <details>", which  *)
(* goes to translate_summary; with "en" the response summary equals that   *)
(* string, with another language the translation call has it as input.     *)
C7_Original ==
    \A r \in Requests :
        SummaryFailed(r) =>
            /\ english_summary[r] = SummaryFailure(r)
            /\ pc[r] \in {"translate", "cleanup", "return", "responded", "raised"}
            /\ (upload[r].language = "en" /\ pc[r] = "responded") =>
                  response[r].summary = SummaryFailure(r)
            /\ (upload[r].language # "en" /\ Translated(r)) =>
                  /\ Len(calls[r]) = 2
                  /\ calls[r][2].prompt =
                        <<"Translate the following medical lab report summary into ",
                          upload[r].language,
                          ". Make it sound natural and medically accurate:\n\n">>
                        \o SummaryFailure(r)

(* C7 as amended: as C7, but with "en" the response summary equals the     *)
(* failure string unless deleting the scratch file raised, in which case   *)
(* the response is the handler's "An error occurred: <details>".           *)
C7_SummaryFailureFlowsDownstream ==
    \A r \in Requests :
        SummaryFailed(r) =>
            /\ english_summary[r] = SummaryFailure(r)
            /\ pc[r] \in {"translate", "cleanup", "return", "responded", "raised"}
            /\ pc[r] = "raised" => final_summary[r] # None
            /\ (upload[r].language = "en" /\ Translated(r)) =>
                  final_summary[r] = SummaryFailure(r)
            /\ (upload[r].language = "en" /\ pc[r] = "responded") =>
                  response[r].summary =
                      IF exc[r] = "" THEN SummaryFailure(r)
                      ELSE <<"An error occurred: ", exc[r]>>
            /\ (upload[r].language # "en" /\ Translated(r)) =>
                  /\ Len(calls[r]) = 2
                  /\ calls[r][2].prompt =
                        <<"Translate the following medical lab report summary into ",
                          upload[r].language,
                          ". Make it sound natural and medically accurate:\n\n">>
                        \o SummaryFailure(r)

\* After a failed summarization an "en" request has responded with the
\* failure string and a "fr" request has issued its translation call.
C7_Witness ==
    \E r, q \in Requests :
        /\ SummaryFailed(r) /\ upload[r].language = "en" /\ pc[r] = "responded"
        /\ response[r].summary = SummaryFailure(r)
        /\ SummaryFailed(q) /\ upload[q].language = "fr" /\ Len(calls[q]) = 2

(* C8: within a request the steps run in the order Save, Extract,          *)
(* Summarize, Translate, Cleanup, Respond: extraction only after the file  *)
(* is written, the summarization call only on non-empty extracted text,    *)
(* the translation call only after the summarization returned and with its *)
(* output as input, deletion only after translation returned; a request    *)
(* with non-empty text makes two calls (summarize, translate) when the     *)
(* language is not "en" and one when it is.                                *)
C8_CallsInOrder ==
    \A r \in Requests :
        /\ Len(calls[r]) <= 2
        /\ calls[r] # <<>> =>
              /\ calls[r][1].role = "summarize"
              /\ pdf_text[r] # None /\ ~IsBlank(pdf_text[r])
              /\ calls[r][1].prompt = SummaryPrompt(pdf_text[r])
              /\ english_summary[r] # None
        /\ Len(calls[r]) = 2 =>
              /\ calls[r][2].role = "translate"
              /\ calls[r][2].prompt = TranslationPrompt(english_summary[r], upload[r].language)
              /\ final_summary[r] # None
        /\ (pdf_text[r] # None /\ ~IsBlank(pdf_text[r]) /\ pc[r] = "responded") =>
              Len(calls[r]) = IF upload[r].language = "en" THEN 1 ELSE 2
        /\ final_summary[r] # None => english_summary[r] # None
        /\ english_summary[r] # None => pdf_text[r] # None

C8_StepsInOrder ==
    \A r \in Requests :
        \* Extract only after Save
        /\ (pdf_text[r] = None /\ pdf_text'[r] # None) =>
              /\ file_path[r] \in DOMAIN fs
              /\ fs[file_path[r]] = upload[r].file
        \* Summarize only after Extract returned, Translate only after Summarize
        /\ (english_summary[r] = None /\ english_summary'[r] # None) =>
              /\ pdf_text[r] # None /\ final_summary[r] = None
        /\ (final_summary[r] = None /\ final_summary'[r] # None) =>
              /\ english_summary[r] # None
              /\ file_path[r] \in DOMAIN fs
        \* Cleanup only after Translate returned
        /\ (file_path[r] \in DOMAIN fs /\ file_path[r] \notin DOMAIN fs') =>
              /\ final_summary[r] # None
              /\ response[r] = NoResponse
        \* Respond with the summary only after Cleanup
        /\ (response[r] = NoResponse /\ response'[r] # NoResponse
            /\ final_summary[r] # None /\ exc[r] = "") =>
              file_path[r] \notin DOMAIN fs

C8_StrictPipelineOrder == [](C8_CallsInOrder) /\ [][C8_StepsInOrder]_vars

\* A "fr" request has completed with two calls and an "en" request with one.
C8_Witness ==
    \E r, q \in Requests :
        /\ pc[r] = "responded" /\ upload[r].language = "fr" /\ exc[r] = ""
        /\ Len(calls[r]) = 2 /\ file_path[r] \notin DOMAIN fs
        /\ pc[q] = "responded" /\ upload[q].language = "en" /\ exc[q] = ""
        /\ Len(calls[q]) = 1

(* C9 as stated: once the request has responded, on every path, the        *)
(* scratch file it wrote has been deleted.                                 *)
C9_ScratchFileDeletedOnEveryPath ==
    \A r \in Requests :
        pc[r] = "responded" => file_path[r] \notin DOMAIN fs

(* C10: under any interleaving a request creates, reads and deletes only   *)
(* the scratch file at its own path: a written file stays as uploaded      *)
(* until its request extracts it, the text a request extracts is the text  *)
(* of the bytes it uploaded, and every change of the uploads directory is  *)
(* made by the one request that owns the changed path.                     *)
C10_OwnFileIntact ==
    \A r \in Requests :
        /\ pc[r] = "extract" =>
              /\ file_path[r] \in DOMAIN fs
              /\ fs[file_path[r]] = upload[r].file
        /\ pdf_text[r] # None => pdf_text[r] = Strip(PagesText(upload[r].file.pages))

C10_OnlyOwnPathChanges ==
    \A p \in DOMAIN fs \cup DOMAIN fs' :
        (p \notin DOMAIN fs \/ p \notin DOMAIN fs' \/ fs'[p] # fs[p]) =>
            \E r \in Requests :
                /\ pc'[r] # pc[r]
                /\ file_path[r] = p
                /\ \A q \in Requests \ {r} : pc'[q] = pc[q] /\ file_path[q] # p

C10_RequestsTouchOnlyOwnFile == [](C10_OwnFileIntact) /\ [][C10_OnlyOwnPathChanges]_vars

\* One request has deleted its file while another's written file waits for
\* extraction.
C10_Witness ==
    \E r, q \in Requests :
        /\ r # q
        /\ pc[r] = "return" /\ file_path[r] \notin DOMAIN fs
        /\ pc[q] = "extract" /\ fs[file_path[q]] = upload[q].file

=============================================================================
